---- MODULE Spec2Model ----
(***************************************************************************)
(* A model of acervo-ts: the rendezvous Channel, its bounded and closable  *)
(* wrappers, and the Worker pool.  JavaScript runs one job at a time, so   *)
(* every action is the synchronous run of a call (or of a continuation)   *)
(* up to its next await; what runs between two awaits is atomic.           *)
(***************************************************************************)
EXTENDS Integers, Sequences, FiniteSets, TLC

\* ------------------------------------------------------------ bounds
MaxSends == 3
MaxRecvs == 3
MaxCapacity == 2
MaxCloses == 2
MaxItems == 3
MaxConcurrency == 2
MaxBuffer == 3
MaxWaits == 4
MaxSignals == 2
MaxAcquires == 4
MaxReleases == 3

\* The payloads: two values are enough to tell one send from another.
Values == {1, 2}

\* ------------------------------------------------------------- state
VARIABLES
    senders,        \* Channel.senders: queued sends, oldest first, [sid, value]
    receivers,      \* Channel.receivers: parked receive() continuations, oldest first
    sent,           \* history: the value of every accepted send() call, in call order
    got,            \* history: every resolution of a receive, [rcv, sid, value]
    nRecv,          \* history: the number of receive() calls issued
    yielding,       \* send() calls suspended in `await yieldExecution()`, oldest timer first
    capacity,       \* BoundedChannel.capacity
    signals,        \* BoundedChannel.signals: the blocked senders, oldest first
    woken,          \* blocked senders whose Signal is fulfilled and who have not resumed yet
    blockedOrder,   \* history: the senders that blocked, in the order they blocked
    releasedOrder,  \* history: the senders that were released, in the order of release
    isClosed,       \* FiniteChannel.isClosed
    closeCalls,     \* history: the number of close() calls
    sendErrors,     \* history: the number of send() calls that threw FiniteChannelClosedError
    concurrency,    \* Worker.concurrency
    srcKind,        \* consume(source): "array" or "generator"
    nItems,         \* the source holds the items 1..nItems
    failItem,       \* the item workerFn rejects on (0: none)
    sinkKind,       \* Worker.output: "array", "channel", or "closed" (a closed FiniteChannel)
    cursor,         \* the position of every iterator over the source
    genClosed,      \* the generator source was closed by return()
    wpc,            \* where each worker is suspended
    witem,          \* the item each worker holds (0: none, the source was done)
    stop,           \* consume's shared stop flag
    outArr,         \* Worker.output when it is an array
    settled,        \* the promise consume() returned: "pending", "resolved", "rejected"
    firstError,     \* the first worker rejection: "none", "transform", "closed"
    afterFail,      \* history: workerFn calls started after a workerFn call had rejected
    combinator,     \* the Streams function called: "buffered", "bufferedConcurrent",
                    \* "mapConcurrent", "concurrent" ("none": no call)
    inputLen,       \* the input generator yields 1..inputLen
    bufferSize,     \* the bufferSize argument
    numWorkers,     \* the concurrency / maxConcurrency argument (1 for buffered)
    mapFail,        \* the item mapFn rejects on (0: none)
    concessions,    \* the Channel `concessions`: [senders, receivers]
    results,        \* the Channel `results` / `channel`: [senders, receivers]
    finished,       \* bufferedConcurrent's `finished` flag
    spc,            \* where each worker of the combinator is suspended
    granted,        \* the concession a worker's receive() resolved with ("none": not yet)
    sitem,          \* the result of each worker's last next(): an item, 0 for done
    nextQueue,      \* the workers with a next() outstanding on the input, oldest first
    pulled,         \* the number of items the input generator has handed out
    inputClosed,    \* return() was called on the input generator
    cpc,            \* where the caller draining the output is
    chold,          \* what the output loop's receive resolved with
    output,         \* history: the values yielded to the caller, in order
    endMarkers,     \* history: the number of null sends
    sigState,       \* the Signal's promise: "pending" or "fulfilled"
    sigReactions,   \* the wait() calls suspended on the pending promise, oldest first
    sigJobs,        \* the continuations of wait() calls scheduled to run, oldest first
    nWaits,         \* history: the number of wait() calls issued
    sigCalls,       \* history: the number of signal() / fulfill() calls
    wakeups,        \* history, per wait(): [n: times resumed, parked: found the Signal pending]
    semSize,        \* the capacity the Semaphore was constructed with
    semCapacity,    \* Semaphore.capacity
    semWaiters,     \* Semaphore.waiters: the acquire() calls parked, oldest first
    semWoken,       \* parked acquire() calls whose Signal is fulfilled, not resumed yet
    nAcq,           \* history: the number of acquire() calls issued
    cstate,         \* each acquire() call: "waiting", "woken", "granted", "released"
    nRel,           \* history: the number of Concession.release() calls
    relErrors       \* history: the release() calls that threw

chanVars == <<senders, receivers, sent, got, nRecv, yielding>>
bndVars == <<capacity, signals, woken, blockedOrder, releasedOrder>>
finVars == <<isClosed, closeCalls, sendErrors>>
wrkVars == <<concurrency, srcKind, nItems, failItem, sinkKind, cursor, genClosed,
             wpc, witem, stop, outArr, settled, firstError, afterFail>>
strVars == <<combinator, inputLen, bufferSize, numWorkers, mapFail, concessions,
             results, finished, spc, granted, sitem, nextQueue, pulled, inputClosed,
             cpc, chold, output, endMarkers>>
sigVars == <<sigState, sigReactions, sigJobs, nWaits, sigCalls, wakeups>>
semVars == <<semSize, semCapacity, semWaiters, semWoken, nAcq, cstate, nRel, relErrors>>
vars == <<chanVars, bndVars, finVars, wrkVars, strVars, sigVars, semVars>>

\* What the operations of one component leave alone.
outsideChannel == <<bndVars, finVars, wrkVars, strVars, sigVars, semVars>>
outsideBounded == <<finVars, wrkVars, strVars, sigVars, semVars>>
outsideFinite == <<bndVars, wrkVars, strVars, sigVars, semVars>>
outsideWorker == <<sent, nRecv, yielding, bndVars, closeCalls, sendErrors, strVars, sigVars, semVars>>
outsideStreams == <<chanVars, bndVars, finVars, wrkVars, sigVars, semVars>>
outsideSignal == <<chanVars, bndVars, finVars, wrkVars, strVars, semVars>>
outsideSemaphore == <<chanVars, bndVars, finVars, wrkVars, strVars, sigVars>>

\* ----------------------------------------------------------- Channel
\* src/src/channels/channel.ts

\* One resolution of a receive: receiver r obtains the value of send sid; `by` is
\* the call that resolved it (a send handing over, or the receive itself).
Delivery(r, entry, op) == [rcv |-> r, sid |-> entry.sid, value |-> entry.value, by |-> op]

\* A send that hands the value to the oldest receiver without removing it.
ChannelSendNoShift(id, v) ==
    IF receivers # <<>>
    THEN /\ got' = Append(got, Delivery(Head(receivers), [sid |-> id, value |-> v], "send"))
         /\ UNCHANGED <<receivers, senders>>
    ELSE /\ senders' = Append(senders, [sid |-> id, value |-> v])
         /\ UNCHANGED <<receivers, got>>

\* A send that queues its value whether or not a receiver is parked.
ChannelSendQueues(id, v) ==
    /\ senders' = Append(senders, [sid |-> id, value |-> v])
    /\ UNCHANGED <<receivers, got>>

\* Channel.send up to its await: hand over to the oldest receiver, or queue.
ChannelSend(id, v) ==
    IF receivers # <<>>
    THEN /\ receivers' = Tail(receivers)
         /\ got' = Append(got, Delivery(Head(receivers), [sid |-> id, value |-> v], "send"))
         /\ UNCHANGED senders
    ELSE /\ senders' = Append(senders, [sid |-> id, value |-> v])
         /\ UNCHANGED <<receivers, got>>

\* A receive that takes the newest queued send (pop instead of shift).
ChannelReceivePop(r) ==
    IF senders # <<>>
    THEN /\ senders' = SubSeq(senders, 1, Len(senders) - 1)
         /\ got' = Append(got, Delivery(r, senders[Len(senders)], "receive"))
         /\ UNCHANGED receivers
    ELSE /\ receivers' = Append(receivers, r)
         /\ UNCHANGED <<senders, got>>

\* Channel.receive: take the oldest queued send, or park.
ChannelReceive(r) ==
    IF senders # <<>>
    THEN /\ senders' = Tail(senders)
         /\ got' = Append(got, Delivery(r, Head(senders), "receive"))
         /\ UNCHANGED receivers
    ELSE /\ receivers' = Append(receivers, r)
         /\ UNCHANGED <<senders, got>>

\* A call of send(v) on a plain Channel.
Send(v) ==
    /\ Len(sent) < MaxSends
    /\ ChannelSend(Len(sent) + 1, v)
    /\ sent' = Append(sent, v)
    /\ yielding' = Append(yielding, Len(sent) + 1)
    /\ UNCHANGED <<nRecv, outsideChannel>>

\* A call of receive() on a plain Channel.
Receive ==
    /\ nRecv < MaxRecvs
    /\ ChannelReceive(nRecv + 1)
    /\ nRecv' = nRecv + 1
    /\ UNCHANGED <<sent, yielding, outsideChannel>>

\* The timer of the oldest pending yieldExecution() fires: that send() returns.
YieldResume ==
    /\ yielding # <<>>
    /\ yielding' = Tail(yielding)
    /\ UNCHANGED <<senders, receivers, sent, got, nRecv, outsideChannel>>

ChanInit ==
    /\ senders = <<>>
    /\ receivers = <<>>
    /\ sent = <<>>
    /\ got = <<>>
    /\ nRecv = 0
    /\ yielding = <<>>

BndIdle ==
    /\ capacity = 1
    /\ signals = <<>>
    /\ woken = <<>>
    /\ blockedOrder = <<>>
    /\ releasedOrder = <<>>

FinIdle ==
    /\ isClosed = FALSE
    /\ closeCalls = 0
    /\ sendErrors = 0

WrkIdle ==
    /\ concurrency = 1
    /\ srcKind = "array"
    /\ nItems = 0
    /\ failItem = 0
    /\ sinkKind = "array"
    /\ cursor = <<>>
    /\ genClosed = FALSE
    /\ wpc = <<>>
    /\ witem = <<>>
    /\ stop = FALSE
    /\ outArr = <<>>
    /\ settled = "pending"
    /\ firstError = "none"
    /\ afterFail = 0

\* A Channel as the Streams functions hold it: nothing queued, nobody parked.
EmptyChannel == [senders |-> <<>>, receivers |-> <<>>]

StrIdle ==
    /\ combinator = "none"
    /\ inputLen = 0
    /\ bufferSize = 1
    /\ numWorkers = 1
    /\ mapFail = 0
    /\ concessions = EmptyChannel
    /\ results = EmptyChannel
    /\ finished = FALSE
    /\ spc = <<>>
    /\ granted = <<>>
    /\ sitem = <<>>
    /\ nextQueue = <<>>
    /\ pulled = 0
    /\ inputClosed = FALSE
    /\ cpc = "unstarted"
    /\ chold = <<>>
    /\ output = <<>>
    /\ endMarkers = 0

SigIdle ==
    /\ sigState = "pending"
    /\ sigReactions = <<>>
    /\ sigJobs = <<>>
    /\ nWaits = 0
    /\ sigCalls = 0
    /\ wakeups = <<>>

SemIdle ==
    /\ semSize = 1
    /\ semCapacity = 1
    /\ semWaiters = <<>>
    /\ semWoken = <<>>
    /\ nAcq = 0
    /\ cstate = <<>>
    /\ nRel = 0
    /\ relErrors = 0

InitChannel == ChanInit /\ BndIdle /\ FinIdle /\ WrkIdle /\ StrIdle /\ SigIdle /\ SemIdle

NextChannel ==
    \/ \E v \in Values : Send(v)
    \/ Receive
    \/ YieldResume

SpecChannel == InitChannel /\ [][NextChannel]_vars

\* ---------------------------------------------------- BoundedChannel
\* src/unnamed/part_003

\* receive() releasing the newest blocked sender (pop instead of shift).
ReleaseNewest ==
    IF signals # <<>>
    THEN /\ signals' = SubSeq(signals, 1, Len(signals) - 1)
         /\ woken' = Append(woken, signals[Len(signals)])
         /\ releasedOrder' = Append(releasedOrder, signals[Len(signals)])
    ELSE UNCHANGED <<signals, woken, releasedOrder>>

\* A receive that removes the oldest blocked sender's Signal without fulfilling it.
ReleaseDropped ==
    IF signals # <<>>
    THEN /\ signals' = Tail(signals)
         /\ UNCHANGED <<woken, releasedOrder>>
    ELSE UNCHANGED <<signals, woken, releasedOrder>>

\* `this.signals.shift()?.signal()`: fulfil the oldest blocked sender's Signal.
ReleaseOldest ==
    IF signals # <<>>
    THEN /\ signals' = Tail(signals)
         /\ woken' = Append(woken, Head(signals))
         /\ releasedOrder' = Append(releasedOrder, Head(signals))
    ELSE UNCHANGED <<signals, woken, releasedOrder>>

\* BoundedChannel.send up to its first await: block at capacity, or send on.
BSend(v) ==
    /\ Len(sent) < MaxSends
    /\ sent' = Append(sent, v)
    /\ IF Len(senders) >= capacity
       THEN /\ signals' = Append(signals, Len(sent) + 1)
            /\ blockedOrder' = Append(blockedOrder, Len(sent) + 1)
            /\ UNCHANGED <<senders, receivers, got, yielding>>
       ELSE /\ ChannelSend(Len(sent) + 1, v)
            /\ yielding' = Append(yielding, Len(sent) + 1)
            /\ UNCHANGED <<signals, blockedOrder>>
    /\ UNCHANGED <<nRecv, capacity, woken, releasedOrder, outsideBounded>>

\* A released sender resumes after `await semaphore.wait()`: it sends on without
\* looking at the length again.  Continuations run in the order of fulfilment.
BResume ==
    /\ woken # <<>>
    /\ ChannelSend(Head(woken), sent[Head(woken)])
    /\ woken' = Tail(woken)
    /\ yielding' = Append(yielding, Head(woken))
    /\ UNCHANGED <<sent, nRecv, capacity, signals, blockedOrder, releasedOrder, outsideBounded>>

\* BoundedChannel.receive: release the oldest blocked sender, then receive.
BReceive ==
    /\ nRecv < MaxRecvs
    /\ ReleaseOldest
    /\ ChannelReceive(nRecv + 1)
    /\ nRecv' = nRecv + 1
    /\ UNCHANGED <<sent, yielding, capacity, blockedOrder, outsideBounded>>

InitBounded ==
    /\ ChanInit
    /\ capacity \in 1..MaxCapacity
    /\ signals = <<>>
    /\ woken = <<>>
    /\ blockedOrder = <<>>
    /\ releasedOrder = <<>>
    /\ FinIdle
    /\ WrkIdle
    /\ StrIdle /\ SigIdle /\ SemIdle

NextBounded ==
    \/ \E v \in Values : BSend(v)
    \/ BResume
    \/ BReceive
    \/ YieldResume

SpecBounded == InitBounded /\ [][NextBounded]_vars

\* The continuation of a fulfilled Signal is run, and timers fire.
FairSpecBounded == SpecBounded /\ WF_vars(BResume) /\ WF_vars(YieldResume)

\* ----------------------------------------------------- FiniteChannel
\* src/src/channels/consumer.ts

\* FiniteChannelData<T> = null | { value: T }
Sentinel == <<>>
Wrap(v) == <<v>>
Unwrap(d) == d[1]

\* The receiver identity of the iter() consumer; receive() calls are 1, 2, ...
IterId == 0

\* A send() that does not look at isClosed.
FSendUnchecked(v) ==
    /\ Len(sent) + sendErrors < MaxSends
    /\ ChannelSend(Len(sent) + 1, Wrap(v))
    /\ sent' = Append(sent, v)
    /\ UNCHANGED <<nRecv, yielding, isClosed, closeCalls, sendErrors, outsideFinite>>

\* FiniteChannel.send: throw when closed, else wrap and delegate.  The timer the
\* caller then waits for touches no state of the channel and is not tracked here.
FSend(v) ==
    /\ Len(sent) + sendErrors < MaxSends
    /\ IF isClosed
       THEN /\ sendErrors' = sendErrors + 1
            /\ UNCHANGED <<senders, receivers, got, sent>>
       ELSE /\ ChannelSend(Len(sent) + 1, Wrap(v))
            /\ sent' = Append(sent, v)
            /\ UNCHANGED sendErrors
    /\ UNCHANGED <<nRecv, yielding, isClosed, closeCalls, outsideFinite>>

\* FiniteChannel.receive: delegate; the caller later sees the value, or the
\* closed error when the delivery is the sentinel (RecvOutcome).
FReceive ==
    /\ nRecv < MaxRecvs
    /\ ChannelReceive(nRecv + 1)
    /\ nRecv' = nRecv + 1
    /\ UNCHANGED <<sent, yielding, finVars, outsideFinite>>

\* What a resolved receive() reports: `result === null` throws.
RecvOutcome(d) == IF d.value = Sentinel THEN "closed" ELSE "value"

\* A close() whose sentinel overtakes the values still queued.
FCloseOvertakes ==
    /\ closeCalls < MaxCloses
    /\ closeCalls' = closeCalls + 1
    /\ IF ~isClosed
       THEN /\ isClosed' = TRUE
            /\ IF receivers # <<>>
               THEN ChannelSend(0, Sentinel)
               ELSE /\ senders' = <<[sid |-> 0, value |-> Sentinel]>> \o senders
                    /\ UNCHANGED <<receivers, got>>
       ELSE UNCHANGED <<isClosed, senders, receivers, got>>
    /\ UNCHANGED <<sent, nRecv, yielding, sendErrors, outsideFinite>>

\* A close() that injects the sentinel on every call.
FCloseAlways ==
    /\ closeCalls < MaxCloses
    /\ closeCalls' = closeCalls + 1
    /\ isClosed' = TRUE
    /\ ChannelSend(0, Sentinel)
    /\ UNCHANGED <<sent, nRecv, yielding, sendErrors, outsideFinite>>

\* FiniteChannel.close: on the first call, set the flag and send the sentinel
\* (not awaited).
FClose ==
    /\ closeCalls < MaxCloses
    /\ closeCalls' = closeCalls + 1
    /\ IF ~isClosed
       THEN /\ isClosed' = TRUE
            /\ ChannelSend(0, Sentinel)
       ELSE UNCHANGED <<isClosed, senders, receivers, got>>
    /\ UNCHANGED <<sent, nRecv, yielding, sendErrors, outsideFinite>>

\* iter() has observed the sentinel and returned.
IterDone == \E i \in 1..Len(got) : got[i].rcv = IterId /\ got[i].value = Sentinel

\* The values iter() has yielded so far, in order.
IsYield(d) == d.rcv = IterId /\ d.value # Sentinel
Yielded ==
    LET s == SelectSeq(got, IsYield)
    IN  [i \in 1..Len(s) |-> Unwrap(s[i].value)]

\* The consumer asks iter() for its next item: one innerChannel.receive().
IterNext ==
    /\ ~IterDone
    /\ \A k \in 1..Len(receivers) : receivers[k] # IterId
    /\ ChannelReceive(IterId)
    /\ UNCHANGED <<sent, nRecv, yielding, finVars, outsideFinite>>

InitFinite == ChanInit /\ BndIdle /\ FinIdle /\ WrkIdle /\ StrIdle /\ SigIdle /\ SemIdle

NextFinite ==
    \/ \E v \in Values : FSend(v)
    \/ FReceive
    \/ FClose
    \/ IterNext

SpecFinite == InitFinite /\ [][NextFinite]_vars

\* The consumer of iter() keeps asking for the next item.
FairSpecFinite == SpecFinite /\ WF_vars(IterNext)

\* ------------------------------------------------------------ Worker
\* src/unnamed/part_008, Worker.consume

Workers == 1..concurrency

\* workerFn: the transformation, here doubling.
Transform(x) == 2 * x

\* Every worker iterating an iterator of its own.
IterOfOwn(w) == w

\* `Array.isArray(source) ? source.values() : source`, evaluated inside each
\* worker: an array gives every worker a fresh iterator, a generator is shared.
IterOf(w) == IF srcKind = "array" THEN w ELSE 0

\* next() on an iterator: the next item, or 0 when the source is done.
NextItem(cur, it) == IF cur[it] < nItems /\ ~genClosed THEN cur[it] + 1 ELSE 0

Advance(cur, it) ==
    IF NextItem(cur, it) = 0 THEN cur ELSE [cur EXCEPT ![it] = NextItem(cur, it)]

\* The workers are started one after the other; each runs up to its first
\* await, which is its first next() on the source.
RECURSIVE Launch(_, _, _)
Launch(w, cur, its) ==
    IF w > concurrency
    THEN [cursor |-> cur, witem |-> its]
    ELSE Launch(w + 1, Advance(cur, IterOf(w)),
                [its EXCEPT ![w] = NextItem(cur, IterOf(w))])

\* consume(source): start `concurrency` workers.
Consume ==
    /\ \A w \in Workers : wpc[w] = "idle"
    /\ LET l == Launch(1, cursor, witem)
       IN  cursor' = l.cursor /\ witem' = l.witem
    /\ wpc' = [w \in Workers |-> "pulled"]
    /\ UNCHANGED <<concurrency, srcKind, nItems, failItem, sinkKind, genClosed, stop,
                   outArr, settled, firstError, afterFail,
                   senders, receivers, got, isClosed, outsideWorker>>

\* Leaving `for await` by break or throw calls return() on the iterator: that
\* ends a generator for everybody; an array iterator has no return().
CloseIterator == genClosed' = (genClosed \/ srcKind = "generator")

\* The worker calls next() again and suspends on it.
PullNext(w) ==
    /\ witem' = [witem EXCEPT ![w] = NextItem(cursor, IterOf(w))]
    /\ cursor' = Advance(cursor, IterOf(w))
    /\ wpc' = [wpc EXCEPT ![w] = "pulled"]

\* A worker that resumes with an item and calls workerFn whatever the stop flag.
AfterPullIgnoringStop(w) ==
    /\ wpc[w] = "pulled"
    /\ wpc' = [wpc EXCEPT ![w] = IF witem[w] = 0 THEN "done" ELSE "work"]
    /\ UNCHANGED <<concurrency, srcKind, nItems, failItem, sinkKind, cursor, stop,
                   outArr, settled, firstError, afterFail, witem, genClosed,
                   senders, receivers, got, isClosed, outsideWorker>>

\* A worker resumes with the result of next(): done ends the loop, a set stop
\* flag breaks out of it, otherwise workerFn is called on the item.
AfterPull(w) ==
    /\ wpc[w] = "pulled"
    /\ IF witem[w] = 0
       THEN /\ wpc' = [wpc EXCEPT ![w] = "done"]
            /\ UNCHANGED <<witem, genClosed, afterFail>>
       ELSE IF stop
            THEN /\ wpc' = [wpc EXCEPT ![w] = "done"]
                 /\ witem' = [witem EXCEPT ![w] = 0]
                 /\ CloseIterator
                 /\ UNCHANGED afterFail
            ELSE /\ wpc' = [wpc EXCEPT ![w] = "work"]
                 /\ afterFail' = IF firstError = "transform" THEN afterFail + 1
                                                               ELSE afterFail
                 /\ UNCHANGED <<witem, genClosed>>
    /\ UNCHANGED <<concurrency, srcKind, nItems, failItem, sinkKind, cursor, stop,
                   outArr, settled, firstError,
                   senders, receivers, got, isClosed, outsideWorker>>

\* A worker resumes with the outcome of workerFn: a rejection leaves the loop
\* (the stop flag is not touched); a result is pushed to the array, and next()
\* called at once, or sent to the channel, which the worker then awaits.  A
\* closed FiniteChannel rejects the send (FiniteChannel.send); nobody receives
\* from the sink while consume() runs, so Channel.send queues the result.
AfterWork(w) ==
    /\ wpc[w] = "work"
    /\ IF witem[w] = failItem
       THEN /\ wpc' = [wpc EXCEPT ![w] = "failed"]
            /\ firstError' = IF firstError = "none" THEN "transform" ELSE firstError
            /\ CloseIterator
            /\ UNCHANGED <<witem, cursor, outArr, senders, receivers, got>>
       ELSE IF sinkKind = "array"
            THEN /\ outArr' = Append(outArr, Transform(witem[w]))
                 /\ PullNext(w)
                 /\ UNCHANGED <<genClosed, senders, receivers, got, firstError>>
            ELSE IF isClosed
                 THEN /\ wpc' = [wpc EXCEPT ![w] = "sendFailed"]
                      /\ UNCHANGED <<witem, cursor, outArr, genClosed,
                                     senders, receivers, got, firstError>>
                 ELSE /\ ChannelSend(Len(senders) + 1, Transform(witem[w]))
                      /\ wpc' = [wpc EXCEPT ![w] = "sending"]
                      /\ UNCHANGED <<witem, cursor, outArr, genClosed, firstError>>
    /\ UNCHANGED <<concurrency, srcKind, nItems, failItem, sinkKind, stop, settled,
                   afterFail, isClosed, outsideWorker>>

\* A worker resumes after `await this.output.send(result)`: on the closed error
\* it sets the stop flag and rethrows; otherwise it calls next() again.
AfterSend(w) ==
    /\ wpc[w] \in {"sending", "sendFailed"}
    /\ IF wpc[w] = "sendFailed"
       THEN /\ stop' = TRUE
            /\ wpc' = [wpc EXCEPT ![w] = "failed"]
            /\ firstError' = IF firstError = "none" THEN "closed" ELSE firstError
            /\ CloseIterator
            /\ UNCHANGED <<witem, cursor>>
       ELSE /\ PullNext(w)
            /\ UNCHANGED <<stop, genClosed, firstError>>
    /\ UNCHANGED <<concurrency, srcKind, nItems, failItem, sinkKind, outArr, settled,
                   afterFail, senders, receivers, got, isClosed, outsideWorker>>

\* Promise.all(workers).then(resolve).catch(reject): rejected as soon as one
\* worker has failed, resolved once every worker has returned.
Settle ==
    /\ settled = "pending"
    /\ \/ /\ \E w \in Workers : wpc[w] = "failed"
          /\ settled' = "rejected"
       \/ /\ \A w \in Workers : wpc[w] = "done"
          /\ settled' = "resolved"
    /\ UNCHANGED <<concurrency, srcKind, nItems, failItem, sinkKind, cursor, genClosed,
                   wpc, witem, stop, outArr, firstError, afterFail,
                   senders, receivers, got, isClosed, outsideWorker>>

\* What the sink holds: the array, or the values queued in the channel.
SinkResults ==
    IF sinkKind = "array" THEN outArr ELSE [i \in 1..Len(senders) |-> senders[i].value]

\* The arguments of the constructor and of consume(); a closed sink is a
\* FiniteChannel whose sentinel has been received.
InitWorker ==
    /\ receivers = <<>>
    /\ sent = <<>>
    /\ got = <<>>
    /\ nRecv = 0
    /\ yielding = <<>>
    /\ BndIdle
    /\ closeCalls = 0
    /\ sendErrors = 0
    /\ concurrency \in 1..MaxConcurrency
    /\ srcKind \in {"array", "generator"}
    /\ nItems \in 0..MaxItems
    /\ failItem \in 0..nItems
    /\ sinkKind \in {"array", "channel", "closed"}
    /\ isClosed = (sinkKind = "closed")
    /\ senders = <<>>
    /\ cursor = [it \in 0..concurrency |-> 0]
    /\ genClosed = FALSE
    /\ wpc = [w \in Workers |-> "idle"]
    /\ witem = [w \in Workers |-> 0]
    /\ stop = FALSE
    /\ outArr = <<>>
    /\ settled = "pending"
    /\ firstError = "none"
    /\ afterFail = 0
    /\ StrIdle /\ SigIdle /\ SemIdle

NextWorker ==
    \/ Consume
    \/ \E w \in Workers : AfterPull(w)
    \/ \E w \in Workers : AfterWork(w)
    \/ \E w \in Workers : AfterSend(w)
    \/ Settle

SpecWorker == InitWorker /\ [][NextWorker]_vars

\* Every continuation that is ready is eventually run, and workerFn settles.
FairSpecWorker == SpecWorker /\ WF_vars(NextWorker)

\* ----------------------------------------------------------- Streams
\* src/unnamed/part_005, on the Channel of src/src/async/channel.ts.  The
\* combinators never await a send, so a send is its synchronous part: hand the
\* value to the oldest parked receiver, or queue it.

\* Two workers whatever the concurrency argument.
SWorkersPair == 1..2

SWorkers == 1..numWorkers

\* What travels on `results`: { data } or null.
Null == <<>>
Data(v) == <<v>>

\* The receiver id of the output loop's results.iter().
OutputLoop == 0

\* generator.next() on the input: the next item, or 0 for done.  An async
\* generator serves its next() calls in call order.
NextOfInput == IF pulled < inputLen /\ ~inputClosed THEN pulled + 1 ELSE 0

\* A send that is lost.
ConcedeLost(st, v) == st

\* A send that queues the concession and wakes no parked receive().
ConcedeQueueOnly(st, v) ==
    [ch |-> [st.ch EXCEPT !.senders = Append(@, v)], granted |-> st.granted]

\* A send that issues the concession twice.
ConcedeTwice(st, v) ==
    IF st.ch.receivers # <<>>
    THEN [ch |-> [st.ch EXCEPT !.receivers = Tail(@), !.senders = Append(@, v)],
          granted |-> [st.granted EXCEPT ![Head(st.ch.receivers)] = <<v>>]]
    ELSE [ch |-> [st.ch EXCEPT !.senders = Append(Append(@, v), v)],
          granted |-> st.granted]

\* concessions.send(v), on the pair of the channel and of what the workers'
\* receive() calls have resolved with.
Concede(st, v) ==
    IF st.ch.receivers # <<>>
    THEN [ch |-> [st.ch EXCEPT !.receivers = Tail(@)],
          granted |-> [st.granted EXCEPT ![Head(st.ch.receivers)] = <<v>>]]
    ELSE [ch |-> [st.ch EXCEPT !.senders = Append(@, v)],
          granted |-> st.granted]

RECURSIVE ConcedeTimes(_, _, _)
ConcedeTimes(st, v, n) ==
    IF n = 0 THEN st ELSE ConcedeTimes(Concede(st, v), v, n - 1)

\* A receive() that resolves with the oldest concession without removing it.
RequestKeep(st, w) ==
    IF st.ch.senders # <<>>
    THEN [ch |-> st.ch,
          granted |-> [st.granted EXCEPT ![w] = <<Head(st.ch.senders)>>]]
    ELSE [ch |-> [st.ch EXCEPT !.receivers = Append(@, w)],
          granted |-> [st.granted EXCEPT ![w] = <<>>]]

\* Worker w calls concessions.receive(): it takes the oldest queued concession,
\* or parks.
Request(st, w) ==
    IF st.ch.senders # <<>>
    THEN [ch |-> [st.ch EXCEPT !.senders = Tail(@)],
          granted |-> [st.granted EXCEPT ![w] = <<Head(st.ch.senders)>>]]
    ELSE [ch |-> [st.ch EXCEPT !.receivers = Append(@, w)],
          granted |-> [st.granted EXCEPT ![w] = <<>>]]

RECURSIVE RequestAll(_, _)
RequestAll(st, w) ==
    IF w > numWorkers THEN st ELSE RequestAll(Request(st, w), w + 1)

\* A send that queues in front of the results already waiting.
ResultsSendFront(x) ==
    IF results.receivers # <<>>
    THEN /\ results' = [results EXCEPT !.receivers = Tail(@)]
         /\ chold' = x
         /\ cpc' = "got"
    ELSE /\ results' = [results EXCEPT !.senders = <<x>> \o @]
         /\ UNCHANGED <<chold, cpc>>

\* results.send(x) by a worker: the output loop, if parked, resumes with x.
ResultsSend(x) ==
    IF results.receivers # <<>>
    THEN /\ results' = [results EXCEPT !.receivers = Tail(@)]
         /\ chold' = x
         /\ cpc' = "got"
    ELSE /\ results' = [results EXCEPT !.senders = Append(@, x)]
         /\ UNCHANGED <<chold, cpc>>

\* A receive that takes the newest queued result.
ResultsReceiveNewest ==
    IF results.senders # <<>>
    THEN /\ results' = [results EXCEPT !.senders = SubSeq(@, 1, Len(@) - 1)]
         /\ chold' = results.senders[Len(results.senders)]
         /\ cpc' = "got"
    ELSE /\ results' = [results EXCEPT !.receivers = Append(@, OutputLoop)]
         /\ cpc' = "waiting"
         /\ UNCHANGED chold

\* The output loop asks results.iter() for the next value: receive() takes the
\* oldest queued result, or parks.
ResultsReceive ==
    IF results.senders # <<>>
    THEN /\ results' = [results EXCEPT !.senders = Tail(@)]
         /\ chold' = Head(results.senders)
         /\ cpc' = "got"
    ELSE /\ results' = [results EXCEPT !.receivers = Append(@, OutputLoop)]
         /\ cpc' = "waiting"
         /\ UNCHANGED chold

\* A worker calls generator.next() on the input and suspends on it.
CallNext(w) ==
    /\ sitem' = [sitem EXCEPT ![w] = NextOfInput]
    /\ pulled' = IF NextOfInput = 0 THEN pulled ELSE NextOfInput
    /\ nextQueue' = Append(nextQueue, w)
    /\ spc' = [spc EXCEPT ![w] = "next"]

strArgs == <<combinator, inputLen, bufferSize, numWorkers, mapFail>>

\* ---- buffered(generator, bufferSize)

\* The caller's first next(): the body runs to its first await.  bufferSize
\* concessions are queued, the worker starts and takes the first one, the
\* output loop parks on the empty results.
BufferedStart ==
    /\ combinator = "buffered"
    /\ cpc = "unstarted"
    /\ LET st == Request(ConcedeTimes([ch |-> concessions, granted |-> granted],
                                      TRUE, bufferSize), 1)
       IN  concessions' = st.ch /\ granted' = st.granted
    /\ spc' = [spc EXCEPT ![1] = "token"]
    /\ ResultsReceive
    /\ UNCHANGED <<strArgs, finished, sitem, nextQueue, pulled, inputClosed,
                   output, endMarkers, outsideStreams>>

\* The worker resumes from `await concessions.receive()`: false ends the loop,
\* true lets it call generator.next().
BufferedAfterConcession(w) ==
    /\ combinator = "buffered"
    /\ spc[w] = "token"
    /\ granted[w] # <<>>
    /\ granted' = [granted EXCEPT ![w] = <<>>]
    /\ IF granted[w] = <<TRUE>>
       THEN CallNext(w)
       ELSE /\ spc' = [spc EXCEPT ![w] = "exit"]
            /\ UNCHANGED <<sitem, pulled, nextQueue>>
    /\ UNCHANGED <<strArgs, concessions, results, finished, inputClosed, cpc, chold,
                   output, endMarkers, outsideStreams>>

\* The worker resumes from `await generator.next()`: on done it sends null and
\* leaves; otherwise it sends the item and asks for the next concession.
BufferedAfterNext(w) ==
    /\ combinator = "buffered"
    /\ spc[w] = "next"
    /\ nextQueue # <<>> /\ Head(nextQueue) = w
    /\ nextQueue' = Tail(nextQueue)
    /\ IF sitem[w] = 0
       THEN /\ ResultsSend(Null)
            /\ endMarkers' = endMarkers + 1
            /\ spc' = [spc EXCEPT ![w] = "exit"]
            /\ UNCHANGED <<concessions, granted>>
       ELSE /\ ResultsSend(Data(sitem[w]))
            /\ LET st == Request([ch |-> concessions, granted |-> granted], w)
               IN  concessions' = st.ch /\ granted' = st.granted
            /\ spc' = [spc EXCEPT ![w] = "token"]
            /\ UNCHANGED endMarkers
    /\ UNCHANGED <<strArgs, finished, sitem, pulled, inputClosed, output,
                   outsideStreams>>

\* The output loop resumes with a result: null makes it send one false
\* concession and return; an item is yielded to the caller.
BufferedAfterResult ==
    /\ combinator = "buffered"
    /\ cpc = "got"
    /\ IF chold = Null
       THEN /\ LET st == Concede([ch |-> concessions, granted |-> granted], FALSE)
               IN  concessions' = st.ch /\ granted' = st.granted
            /\ cpc' = "done"
            /\ UNCHANGED output
       ELSE /\ output' = Append(output, chold[1])
            /\ cpc' = "yielded"
            /\ UNCHANGED <<concessions, granted>>
    /\ UNCHANGED <<strArgs, results, finished, spc, sitem, nextQueue, pulled,
                   inputClosed, chold, endMarkers, outsideStreams>>

\* The caller asks for the next value: the body resumes after the yield, sends
\* a true concession and goes back to results.iter().
BufferedResume ==
    /\ combinator = "buffered"
    /\ cpc = "yielded"
    /\ LET st == Concede([ch |-> concessions, granted |-> granted], TRUE)
       IN  concessions' = st.ch /\ granted' = st.granted
    /\ ResultsReceive
    /\ UNCHANGED <<strArgs, finished, spc, sitem, nextQueue, pulled, inputClosed,
                   output, endMarkers, outsideStreams>>

StrInit ==
    /\ ChanInit /\ BndIdle /\ FinIdle /\ WrkIdle /\ SigIdle /\ SemIdle
    /\ inputLen \in 0..MaxItems
    /\ concessions = EmptyChannel
    /\ results = EmptyChannel
    /\ finished = FALSE
    /\ spc = [w \in SWorkers |-> "idle"]
    /\ granted = [w \in SWorkers |-> <<>>]
    /\ sitem = [w \in SWorkers |-> 0]
    /\ nextQueue = <<>>
    /\ pulled = 0
    /\ inputClosed = FALSE
    /\ cpc = "unstarted"
    /\ chold = Null
    /\ output = <<>>
    /\ endMarkers = 0

InitBuffered ==
    /\ combinator = "buffered"
    /\ bufferSize \in 1..MaxBuffer
    /\ numWorkers = 1
    /\ mapFail = 0
    /\ StrInit

NextBuffered ==
    \/ BufferedStart
    \/ \E w \in SWorkers : BufferedAfterConcession(w)
    \/ \E w \in SWorkers : BufferedAfterNext(w)
    \/ BufferedAfterResult
    \/ BufferedResume

SpecBuffered == InitBuffered /\ [][NextBuffered]_vars

\* The input produces its items, ready continuations run, and the caller
\* drains the output.
FairSpecBuffered == SpecBuffered /\ WF_vars(NextBuffered)

\* ---- bufferedConcurrent(generator, bufferSize, concurrency)

\* The caller's first next(): bufferSize concessions are queued, the workers
\* start one after the other, each taking a concession or parking, and the
\* output loop parks on the empty results.
ConcurrentStart ==
    /\ combinator = "bufferedConcurrent"
    /\ cpc = "unstarted"
    /\ LET st == RequestAll(ConcedeTimes([ch |-> concessions, granted |-> granted],
                                         TRUE, bufferSize), 1)
       IN  concessions' = st.ch /\ granted' = st.granted
    /\ spc' = [w \in SWorkers |-> "token"]
    /\ ResultsReceive
    /\ UNCHANGED <<strArgs, finished, sitem, nextQueue, pulled, inputClosed,
                   output, endMarkers, outsideStreams>>

\* A worker resumes from `await concessions.receive()`: false ends the loop, so
\* does a set `finished`; otherwise it calls generator.next().
ConcurrentAfterConcession(w) ==
    /\ combinator = "bufferedConcurrent"
    /\ spc[w] = "token"
    /\ granted[w] # <<>>
    /\ granted' = [granted EXCEPT ![w] = <<>>]
    /\ IF granted[w] = <<TRUE>> /\ ~finished
       THEN CallNext(w)
       ELSE /\ spc' = [spc EXCEPT ![w] = "exit"]
            /\ UNCHANGED <<sitem, pulled, nextQueue>>
    /\ UNCHANGED <<strArgs, concessions, results, finished, inputClosed, cpc, chold,
                   output, endMarkers, outsideStreams>>

\* A worker resumes from `await generator.next()`: on done it sets `finished`,
\* sends null and leaves; otherwise it sends the item and asks for the next
\* concession.
ConcurrentAfterNext(w) ==
    /\ combinator = "bufferedConcurrent"
    /\ spc[w] = "next"
    /\ nextQueue # <<>> /\ Head(nextQueue) = w
    /\ nextQueue' = Tail(nextQueue)
    /\ IF sitem[w] = 0
       THEN /\ finished' = TRUE
            /\ ResultsSend(Null)
            /\ endMarkers' = endMarkers + 1
            /\ spc' = [spc EXCEPT ![w] = "exit"]
            /\ UNCHANGED <<concessions, granted>>
       ELSE /\ ResultsSend(Data(sitem[w]))
            /\ LET st == Request([ch |-> concessions, granted |-> granted], w)
               IN  concessions' = st.ch /\ granted' = st.granted
            /\ spc' = [spc EXCEPT ![w] = "token"]
            /\ UNCHANGED <<finished, endMarkers>>
    /\ UNCHANGED <<strArgs, sitem, pulled, inputClosed, output, outsideStreams>>

\* The output loop resumes with a result: null makes it send `concurrency`
\* false concessions and return; an item is yielded to the caller.
ConcurrentAfterResult ==
    /\ combinator = "bufferedConcurrent"
    /\ cpc = "got"
    /\ IF chold = Null
       THEN /\ LET st == ConcedeTimes([ch |-> concessions, granted |-> granted],
                                      FALSE, numWorkers)
               IN  concessions' = st.ch /\ granted' = st.granted
            /\ cpc' = "done"
            /\ UNCHANGED output
       ELSE /\ output' = Append(output, chold[1])
            /\ cpc' = "yielded"
            /\ UNCHANGED <<concessions, granted>>
    /\ UNCHANGED <<strArgs, results, finished, spc, sitem, nextQueue, pulled,
                   inputClosed, chold, endMarkers, outsideStreams>>

\* The caller asks for the next value: the body resumes after the yield, sends
\* a true concession and goes back to results.iter().
ConcurrentResume ==
    /\ combinator = "bufferedConcurrent"
    /\ cpc = "yielded"
    /\ LET st == Concede([ch |-> concessions, granted |-> granted], TRUE)
       IN  concessions' = st.ch /\ granted' = st.granted
    /\ ResultsReceive
    /\ UNCHANGED <<strArgs, finished, spc, sitem, nextQueue, pulled, inputClosed,
                   output, endMarkers, outsideStreams>>

InitBufferedConcurrent ==
    /\ combinator = "bufferedConcurrent"
    /\ bufferSize \in 1..MaxBuffer
    /\ numWorkers \in 1..MaxConcurrency
    /\ mapFail = 0
    /\ StrInit

NextBufferedConcurrent ==
    \/ ConcurrentStart
    \/ \E w \in SWorkers : ConcurrentAfterConcession(w)
    \/ \E w \in SWorkers : ConcurrentAfterNext(w)
    \/ ConcurrentAfterResult
    \/ ConcurrentResume

SpecBufferedConcurrent == InitBufferedConcurrent /\ [][NextBufferedConcurrent]_vars

FairSpecBufferedConcurrent ==
    SpecBufferedConcurrent /\ WF_vars(NextBufferedConcurrent)

\* ---- mapConcurrent(inputGenerator, mapFn, maxConcurrency) and
\* ---- concurrent(generator, concurrency)

FanOut == {"mapConcurrent", "concurrent"}

\* mapFn: doubling.
MapFn(x) == 2 * x

\* The workers are started one after the other; each runs up to its first
\* await, the first next() of its `for await` over the shared input.
RECURSIVE NextAll(_, _)
NextAll(st, w) ==
    IF w \notin SWorkers
    THEN st
    ELSE LET item == IF st.pulled < inputLen THEN st.pulled + 1 ELSE 0
         IN  NextAll([sitem |-> [st.sitem EXCEPT ![w] = item],
                      pulled |-> IF item = 0 THEN st.pulled ELSE item,
                      nextQueue |-> Append(st.nextQueue, w)], w + 1)

\* The caller's first next(): the workers start, Promise.all is set up, and the
\* output loop parks on the empty channel.
FanStart ==
    /\ combinator \in FanOut
    /\ cpc = "unstarted"
    /\ LET st == NextAll([sitem |-> sitem, pulled |-> pulled, nextQueue |-> nextQueue], 1)
       IN  sitem' = st.sitem /\ pulled' = st.pulled /\ nextQueue' = st.nextQueue
    /\ spc' = [w \in SWorkers |-> "next"]
    /\ ResultsReceive
    /\ UNCHANGED <<strArgs, concessions, finished, granted, inputClosed, output,
                   endMarkers, outsideStreams>>

\* A Promise.all whose callback runs once one worker has returned.
AllSettledEarly ==
    /\ combinator \in FanOut
    /\ endMarkers = 0
    /\ \E w \in SWorkers : spc[w] = "exit"
    /\ ResultsSend(Null)
    /\ endMarkers' = 1
    /\ UNCHANGED <<strArgs, concessions, finished, spc, granted, sitem, nextQueue,
                   pulled, inputClosed, output, outsideStreams>>

\* A worker's `for await` resumes with the result of next(): done ends the
\* worker.  mapConcurrent calls mapFn on the item; concurrent sends the item
\* and calls next() again.
FanAfterNext(w) ==
    /\ combinator \in FanOut
    /\ spc[w] = "next"
    /\ nextQueue # <<>> /\ Head(nextQueue) = w
    /\ IF sitem[w] = 0
       THEN /\ spc' = [spc EXCEPT ![w] = "exit"]
            /\ nextQueue' = Tail(nextQueue)
            /\ UNCHANGED <<sitem, pulled, results, chold, cpc>>
       ELSE IF combinator = "mapConcurrent"
            THEN /\ spc' = [spc EXCEPT ![w] = "map"]
                 /\ nextQueue' = Tail(nextQueue)
                 /\ UNCHANGED <<sitem, pulled, results, chold, cpc>>
            ELSE /\ ResultsSend(Data(sitem[w]))
                 /\ sitem' = [sitem EXCEPT ![w] = NextOfInput]
                 /\ pulled' = IF NextOfInput = 0 THEN pulled ELSE NextOfInput
                 /\ nextQueue' = Append(Tail(nextQueue), w)
                 /\ UNCHANGED spc
    /\ UNCHANGED <<strArgs, concessions, finished, granted, inputClosed, output,
                   endMarkers, outsideStreams>>

\* A mapConcurrent worker resumes from `await mapFn(input)`.  A rejection leaves
\* the `for await`, which calls return() on the input generator, and rejects
\* the worker's promise; a result is sent and next() is called again.
MapAfterFn(w) ==
    /\ combinator = "mapConcurrent"
    /\ spc[w] = "map"
    /\ IF sitem[w] = mapFail
       THEN /\ spc' = [spc EXCEPT ![w] = "failed"]
            /\ inputClosed' = TRUE
            /\ UNCHANGED <<sitem, pulled, nextQueue, results, chold, cpc>>
       ELSE /\ ResultsSend(Data(MapFn(sitem[w])))
            /\ CallNext(w)
            /\ UNCHANGED inputClosed
    /\ UNCHANGED <<strArgs, concessions, finished, granted, output, endMarkers,
                   outsideStreams>>

\* Promise.all(resolvers).then(() => channel.send(null)): the callback runs,
\* once, when every worker has returned; a rejected worker rejects Promise.all
\* and the callback never runs.
AllSettled ==
    /\ combinator \in FanOut
    /\ endMarkers = 0
    /\ \A w \in SWorkers : spc[w] = "exit"
    /\ ResultsSend(Null)
    /\ endMarkers' = 1
    /\ UNCHANGED <<strArgs, concessions, finished, spc, granted, sitem, nextQueue,
                   pulled, inputClosed, output, outsideStreams>>

\* The output loop resumes with what the channel gave: null ends it, a result
\* is yielded to the caller.
FanAfterResult ==
    /\ combinator \in FanOut
    /\ cpc = "got"
    /\ IF chold = Null
       THEN cpc' = "done" /\ UNCHANGED output
       ELSE cpc' = "yielded" /\ output' = Append(output, chold[1])
    /\ UNCHANGED <<strArgs, concessions, results, finished, spc, granted, sitem,
                   nextQueue, pulled, inputClosed, chold, endMarkers, outsideStreams>>

\* The caller asks for the next value: the body goes back to channel.iter().
FanResume ==
    /\ combinator \in FanOut
    /\ cpc = "yielded"
    /\ ResultsReceive
    /\ UNCHANGED <<strArgs, concessions, finished, spc, granted, sitem, nextQueue,
                   pulled, inputClosed, output, endMarkers, outsideStreams>>

InitFanOut ==
    /\ combinator \in FanOut
    /\ numWorkers \in 1..MaxConcurrency
    /\ bufferSize = 1
    /\ StrInit
    /\ mapFail \in IF combinator = "mapConcurrent" THEN 0..inputLen ELSE {0}

NextFanOut ==
    \/ FanStart
    \/ \E w \in SWorkers : FanAfterNext(w)
    \/ \E w \in SWorkers : MapAfterFn(w)
    \/ AllSettled
    \/ FanAfterResult
    \/ FanResume

SpecFanOut == InitFanOut /\ [][NextFanOut]_vars

\* The input produces its items, mapFn settles, ready continuations run, and
\* the caller drains the output.
FairSpecFanOut == SpecFanOut /\ WF_vars(NextFanOut)

\* ------------------------------------------------------------ Signal
\* src/src/async/signal.ts: a promise and its resolve function.  Both classes
\* of the file (signal()/wait(), and fulfill() on a Promise subclass) are this
\* machine.

\* A wait() that suspends on the promise whatever its state.
SigWaitParks ==
    /\ nWaits < MaxWaits
    /\ nWaits' = nWaits + 1
    /\ wakeups' = Append(wakeups, [n |-> 0, parked |-> sigState = "pending"])
    /\ sigReactions' = Append(sigReactions, nWaits + 1)
    /\ UNCHANGED <<sigState, sigJobs, sigCalls, outsideSignal>>

\* wait(): the caller awaits the promise.  On a pending promise it is suspended;
\* on a fulfilled one its continuation is scheduled at once.
SigWait ==
    /\ nWaits < MaxWaits
    /\ nWaits' = nWaits + 1
    /\ wakeups' = Append(wakeups, [n |-> 0, parked |-> sigState = "pending"])
    /\ IF sigState = "pending"
       THEN sigReactions' = Append(sigReactions, nWaits + 1) /\ UNCHANGED sigJobs
       ELSE sigJobs' = Append(sigJobs, nWaits + 1) /\ UNCHANGED sigReactions
    /\ UNCHANGED <<sigState, sigCalls, outsideSignal>>

\* A resolve that schedules the waiters on every call and keeps them registered.
SigSignalAgain ==
    /\ sigCalls < MaxSignals
    /\ sigCalls' = sigCalls + 1
    /\ sigState' = "fulfilled"
    /\ sigJobs' = sigJobs \o sigReactions
    /\ UNCHANGED <<sigReactions, nWaits, wakeups, outsideSignal>>

\* signal() / fulfill(): the promise's resolve function.  The first call
\* fulfils the promise and schedules everyone suspended on it; resolving a
\* settled promise does nothing.
SigSignal ==
    /\ sigCalls < MaxSignals
    /\ sigCalls' = sigCalls + 1
    /\ IF sigState = "pending"
       THEN /\ sigState' = "fulfilled"
            /\ sigJobs' = sigJobs \o sigReactions
            /\ sigReactions' = <<>>
       ELSE UNCHANGED <<sigState, sigJobs, sigReactions>>
    /\ UNCHANGED <<nWaits, wakeups, outsideSignal>>

\* The oldest scheduled continuation runs: that wait() resumes.
SigResume ==
    /\ sigJobs # <<>>
    /\ sigJobs' = Tail(sigJobs)
    /\ wakeups' = [wakeups EXCEPT ![Head(sigJobs)].n = @ + 1]
    /\ UNCHANGED <<sigState, sigReactions, nWaits, sigCalls, outsideSignal>>

InitSignal ==
    /\ ChanInit /\ BndIdle /\ FinIdle /\ WrkIdle /\ StrIdle /\ SemIdle
    /\ SigIdle

NextSignal == SigWait \/ SigSignal \/ SigResume

SpecSignal == InitSignal /\ [][NextSignal]_vars

\* Scheduled continuations are run.
FairSpecSignal == SpecSignal /\ WF_vars(SigResume)

\* --------------------------------------------------------- Semaphore
\* src/src/async/semaphore.ts.  An acquire() call and the Concession it returns
\* share an id.

\* acquire(): with no capacity left (`!this.capacity`) the call parks on a new
\* Signal; otherwise it takes a unit of capacity and returns a Concession.
SemAcquire ==
    /\ nAcq < MaxAcquires
    /\ nAcq' = nAcq + 1
    /\ IF semCapacity = 0
       THEN /\ semWaiters' = Append(semWaiters, nAcq + 1)
            /\ cstate' = Append(cstate, "waiting")
            /\ UNCHANGED semCapacity
       ELSE /\ semCapacity' = semCapacity - 1
            /\ cstate' = Append(cstate, "granted")
            /\ UNCHANGED semWaiters
    /\ UNCHANGED <<semSize, semWoken, nRel, relErrors, outsideSemaphore>>

\* A parked acquire() resumes after `await signal.wait()`: it takes a unit of
\* capacity, without looking at the counter again, and returns a Concession.
SemResume ==
    /\ semWoken # <<>>
    /\ semWoken' = Tail(semWoken)
    /\ semCapacity' = semCapacity - 1
    /\ cstate' = [cstate EXCEPT ![Head(semWoken)] = "granted"]
    /\ UNCHANGED <<semSize, semWaiters, nAcq, nRel, relErrors, outsideSemaphore>>

\* A release() that does not look at the `released` flag.
SemReleaseUnchecked(c) ==
    /\ nRel < MaxReleases
    /\ cstate[c] \in {"granted", "released"}
    /\ nRel' = nRel + 1
    /\ semCapacity' = semCapacity + 1
    /\ IF semWaiters # <<>>
       THEN /\ semWaiters' = Tail(semWaiters)
            /\ semWoken' = Append(semWoken, Head(semWaiters))
            /\ cstate' = [cstate EXCEPT ![c] = "released",
                                        ![Head(semWaiters)] = "woken"]
       ELSE /\ cstate' = [cstate EXCEPT ![c] = "released"]
            /\ UNCHANGED <<semWaiters, semWoken>>
    /\ UNCHANGED <<semSize, nAcq, relErrors, outsideSemaphore>>

\* Concession.release(): a released Concession throws; otherwise it is marked
\* released and Semaphore.release gives the unit back and signals the oldest
\* parked acquire().
SemRelease(c) ==
    /\ nRel < MaxReleases
    /\ cstate[c] \in {"granted", "released"}
    /\ nRel' = nRel + 1
    /\ IF cstate[c] = "released"
       THEN /\ relErrors' = relErrors + 1
            /\ UNCHANGED <<semCapacity, semWaiters, semWoken, cstate>>
       ELSE /\ semCapacity' = semCapacity + 1
            /\ IF semWaiters # <<>>
               THEN /\ semWaiters' = Tail(semWaiters)
                    /\ semWoken' = Append(semWoken, Head(semWaiters))
                    /\ cstate' = [cstate EXCEPT ![c] = "released",
                                                ![Head(semWaiters)] = "woken"]
               ELSE /\ cstate' = [cstate EXCEPT ![c] = "released"]
                    /\ UNCHANGED <<semWaiters, semWoken>>
            /\ UNCHANGED relErrors
    /\ UNCHANGED <<semSize, nAcq, outsideSemaphore>>

InitSemaphore ==
    /\ ChanInit /\ BndIdle /\ FinIdle /\ WrkIdle /\ StrIdle /\ SigIdle
    /\ semSize \in 1..MaxCapacity
    /\ semCapacity = semSize
    /\ semWaiters = <<>>
    /\ semWoken = <<>>
    /\ nAcq = 0
    /\ cstate = <<>>
    /\ nRel = 0
    /\ relErrors = 0

NextSemaphore ==
    \/ SemAcquire
    \/ SemResume
    \/ \E c \in 1..nAcq : SemRelease(c)

SpecSemaphore == InitSemaphore /\ [][NextSemaphore]_vars

\* ---------------------------------------------------------- claims

Resolved(r) == {i \in 1..Len(got) : got[i].rcv = r}

\* C1: on one Channel, under any interleaving of send() and receive() calls,
\* the k-th receive() issued obtains the k-th value sent.
C1_Fifo ==
    \A i \in 1..Len(got) :
        /\ got[i].rcv <= Len(sent)
        /\ got[i].value = sent[got[i].rcv]

\* C1 witness: three receives were resolved, one that had parked before its
\* send and one that took a queued value, and the values sent were not all equal.
C1_Witness ==
    /\ Len(got) = 3
    /\ sent[1] # sent[2]
    /\ sent[2] # sent[3]
    /\ \E i, j \in 1..3 : got[i].by = "send" /\ got[j].by = "receive"

\* C2: a receive() issued before any send() stays suspended until the next
\* send() and resolves with that send's value; every sent value goes to at most
\* one receiver; no receiver is resolved twice or with a value never sent.
C2_Inv ==
    /\ \A i, j \in 1..Len(got) :
            i # j => got[i].sid # got[j].sid /\ got[i].rcv # got[j].rcv
    /\ \A i \in 1..Len(got) :
            got[i].sid \in 1..Len(sent) /\ got[i].value = sent[got[i].sid]
    /\ \A k \in 1..Len(receivers) : Resolved(receivers[k]) = {}
C2_Step ==
    /\ (Len(sent') # Len(sent) /\ receivers # <<>>) =>
            /\ got' = Append(got, [rcv |-> Head(receivers), sid |-> Len(sent'),
                                   value |-> sent'[Len(sent')], by |-> "send"])
            /\ senders' = senders
    /\ (got' # got /\ receivers # <<>>) => Len(sent') = Len(sent) + 1
C2_Rendezvous == []C2_Inv /\ [][C2_Step]_vars

\* C2 witness: a receive issued before any send was resolved by the first send,
\* and a later receive took a queued value.
C2_Witness ==
    /\ Len(got) >= 2
    /\ got[1] = [rcv |-> 1, sid |-> 1, value |-> sent[1], by |-> "send"]
    /\ \E i \in 1..Len(got) : got[i].by = "receive"

\* C3: the number of enqueued-but-unreceived items of a BoundedChannel is at
\* most its capacity in every reachable state.
C3_LengthWithinCapacity == Len(senders) <= capacity

\* C4: blocked senders are released in the order in which they blocked; each
\* receive() releases at most one, the oldest; only receive() releases.
C4_Inv ==
    /\ Len(releasedOrder) <= Len(blockedOrder)
    /\ releasedOrder = SubSeq(blockedOrder, 1, Len(releasedOrder))
C4_Step ==
    releasedOrder' # releasedOrder =>
        /\ nRecv' = nRecv + 1
        /\ signals # <<>>
        /\ releasedOrder' = Append(releasedOrder, Head(signals))
C4_ReleaseOrder == []C4_Inv /\ [][C4_Step]_vars

\* C4 witness: two senders blocked and both were released, one per receive.
C4_Witness == Len(releasedOrder) >= 2 /\ Len(blockedOrder) >= 2

\* C5: after close(), every send() fails with the closed error and changes
\* nothing: nothing enqueued, no receiver resolved, length unchanged.
C5_ClosedSendFails ==
    [][(isClosed /\ Len(sent') + sendErrors' # Len(sent) + sendErrors) =>
            /\ sendErrors' = sendErrors + 1
            /\ UNCHANGED <<senders, receivers, got, sent, isClosed>>]_vars

\* C5 witness: a send() failed on a closed channel while a receiver was parked.
C5_Witness == isClosed /\ sendErrors >= 1 /\ receivers # <<>>

\* The values still queued in the inner channel, oldest first.
IsValueEntry(e) == e.value # Sentinel
QueuedValues ==
    LET s == SelectSeq(senders, IsValueEntry)
    IN  [i \in 1..Len(s) |-> Unwrap(s[i].value)]

\* C6: with iter() as the only consumer, iter() yields the values sent before
\* close() in send order and drops none; it ends only after close(), having
\* yielded them all, and it does end once the channel is closed.
C6_Inv ==
    nRecv = 0 =>
        /\ Yielded \o QueuedValues = sent
        /\ IterDone => (isClosed /\ Yielded = sent)
C6_Live == (isClosed /\ nRecv = 0) ~> (IterDone \/ nRecv > 0)
C6_IterDrains == []C6_Inv /\ C6_Live

\* C6 witness: iter(), the only consumer, ended after yielding two values.
C6_Witness == nRecv = 0 /\ IterDone /\ Len(Yielded) >= 2

\* The sentinels in the inner channel or already delivered.
SentinelCount ==
    Cardinality({i \in 1..Len(senders) : senders[i].value = Sentinel})
        + Cardinality({i \in 1..Len(got) : got[i].value = Sentinel})

\* C7: close() is idempotent: the flag is set once and never reset, and exactly
\* one sentinel is ever injected, over any number of close() calls.
C7_Inv == SentinelCount = (IF isClosed THEN 1 ELSE 0)
C7_CloseIdempotent == []C7_Inv /\ [][isClosed => isClosed']_vars

\* C7 witness: close() was called twice.
C7_Witness == isClosed /\ closeCalls >= 2

\* The sentinel has been consumed by a receive() or by iter().
SentinelConsumed == \E i \in 1..Len(got) : got[i].value = Sentinel

\* C8: once the sentinel has been consumed, no receive() stays suspended:
\* later receives, and receivers pending at close(), report closure.
C8_NoReceiverLeftSuspended == SentinelConsumed => receivers = <<>>

\* The number of results of item x the sink holds.
ResultsOf(x) == Cardinality({i \in 1..Len(SinkResults) : SinkResults[i] = Transform(x)})

\* consume() ran to the end without a failure.
CleanRun == failItem = 0 /\ sinkKind # "closed"

\* C9: with an array source and two or more workers, every item is claimed and
\* transformed by exactly one worker: the sink never holds two results of one
\* item, and holds exactly one per item when consume() resolves.
C9_ArrayItemsOnce ==
    (srcKind = "array" /\ concurrency >= 2) =>
        /\ \A x \in 1..nItems : ResultsOf(x) <= 1
        /\ settled = "resolved" => Len(SinkResults) = nItems

\* C10: with a lazy sequence and no failure, consume() resolves, and the sink
\* then holds exactly one result per source item, under every interleaving.
C10_Inv ==
    (srcKind = "generator" /\ CleanRun) =>
        /\ settled # "rejected"
        /\ \A x \in 1..nItems : ResultsOf(x) <= 1
        /\ settled = "resolved" =>
                /\ Len(SinkResults) = nItems
                /\ \A x \in 1..nItems : ResultsOf(x) = 1
C10_Live == (srcKind = "generator" /\ CleanRun) ~> (settled = "resolved")
C10_GeneratorItemsOnce == []C10_Inv /\ C10_Live

\* C10 witness: two workers drained a generator of three items into the sink
\* and consume() resolved.
C10_Witness ==
    /\ srcKind = "generator" /\ CleanRun
    /\ concurrency >= 2 /\ nItems >= 3
    /\ settled = "resolved"

Exited(w) == wpc[w] \in {"done", "failed"}

\* C11: once workerFn has rejected on an item, the shared stop flag is set, at
\* most `concurrency` further workerFn calls are started, and consume() does not
\* resolve.
C11_TransformFailureStops ==
    firstError = "transform" =>
        /\ stop
        /\ afterFail <= concurrency
        /\ settled # "resolved"

\* C12: the promise of consume() is settled only when every worker has left its
\* loop, on the failure path too.
C12_SettlesAfterWorkersExit ==
    settled # "pending" => \A w \in Workers : Exited(w)

\* C13: with a closed FiniteChannel as sink, the worker whose send failed has
\* set the stop flag when it rethrows; consume() is rejected, with a worker's
\* error; once the flag is set no worker calls workerFn again, and a worker that
\* resumes with an item leaves its loop at the stop check.
C13_Inv ==
    /\ firstError = "closed" => stop
    /\ (\E w \in Workers : wpc[w] = "failed") => firstError # "none"
    /\ settled = "rejected" => firstError # "none"
    /\ (settled = "rejected" /\ failItem = 0) => firstError = "closed"

C13_Step ==
    \A w \in Workers :
        stop =>
            /\ (wpc'[w] = "work" => wpc[w] = "work")
            /\ (wpc[w] = "pulled" /\ wpc'[w] # "pulled") => wpc'[w] = "done"

C13_Live ==
    (firstError = "closed") ~>
        (settled = "rejected" /\ \A w \in Workers : Exited(w))

C13_ClosedSinkStops == []C13_Inv /\ [][C13_Step]_vars /\ C13_Live

\* Two workers over an array, nothing but the send fails: one was rejected by
\* the closed sink, the other held an item and left at the stop check.
C13_Witness ==
    /\ sinkKind = "closed" /\ srcKind = "array" /\ failItem = 0
    /\ stop
    /\ settled = "rejected"
    /\ \E w \in Workers : wpc[w] = "failed"
    /\ \E w \in Workers : wpc[w] = "done"

\* C14: buffered(input, k) yields the items of the input in input order, each
\* once: what has been yielded is always a prefix of the input, and the caller
\* that keeps draining reaches the end having received all of it.
C14_Inv ==
    combinator = "buffered" =>
        /\ Len(output) <= inputLen
        /\ \A i \in 1..Len(output) : output[i] = i
        /\ cpc = "done" => Len(output) = inputLen

C14_Live == (combinator = "buffered") ~> (cpc = "done" /\ Len(output) = inputLen)

C14_BufferedInOrder == []C14_Inv /\ C14_Live

\* Three items or more through a buffer of one, drained to the end.
C14_Witness ==
    /\ combinator = "buffered"
    /\ bufferSize = 1 /\ inputLen >= 3
    /\ cpc = "done"
    /\ output = [i \in 1..inputLen |-> i]

\* The true concessions a worker can still use: queued, or handed to a worker
\* that has not resumed yet.
RECURSIVE CountTrue(_)
CountTrue(q) == IF q = <<>> THEN 0
                ELSE (IF Head(q) THEN 1 ELSE 0) + CountTrue(Tail(q))

Concessions ==
    CountTrue(concessions.senders) + Cardinality({w \in SWorkers : granted[w] = <<TRUE>>})

\* C15: in buffered(input, k) the items pulled from the input and not yet
\* yielded, plus the concessions still unused, never exceed k; the worker pulls
\* only on a true concession, and after the start a concession is issued only
\* by the output loop resuming from a yield.
C15_Inv ==
    combinator = "buffered" =>
        /\ pulled - Len(output) <= bufferSize
        /\ pulled - Len(output) + Concessions <= bufferSize

C15_Step ==
    combinator = "buffered" =>
        /\ pulled' > pulled =>
              \E w \in SWorkers : granted[w] = <<TRUE>> /\ granted'[w] = <<>>
        /\ (cpc # "unstarted" /\ Concessions' > Concessions) =>
              (cpc = "yielded" /\ cpc' # "yielded")

C15_BufferedBound == []C15_Inv /\ [][C15_Step]_vars

\* The worker is a full buffer ahead and parked for a concession, with input left.
C15_Witness ==
    /\ combinator = "buffered"
    /\ bufferSize >= 2
    /\ pulled - Len(output) = bufferSize
    /\ pulled < inputLen
    /\ concessions.receivers # <<>>

\* C16: bufferedConcurrent(input, k, c) yields every input item exactly once:
\* no value is yielded twice, none outside the input, and the caller that keeps
\* draining reaches the end having received all of them.
C16_Inv ==
    combinator = "bufferedConcurrent" =>
        /\ \A i \in 1..Len(output) : output[i] \in 1..inputLen
        /\ \A i, j \in 1..Len(output) : output[i] = output[j] => i = j
        /\ cpc = "done" => {output[i] : i \in 1..Len(output)} = 1..inputLen

C16_Live ==
    (combinator = "bufferedConcurrent") ~>
        (cpc = "done" /\ {output[i] : i \in 1..Len(output)} = 1..inputLen)

C16_ConcurrentItemsOnce == []C16_Inv /\ C16_Live

\* Two workers, the second with a next() outstanding when the first saw the end.
C16_Witness ==
    /\ combinator = "bufferedConcurrent"
    /\ numWorkers >= 2 /\ inputLen >= 2
    /\ endMarkers >= 2
    /\ cpc = "done"
    /\ Len(output) = inputLen

\* The results in flight: a next() outstanding, a result queued, or one the
\* output loop holds and has not yielded yet.
RECURSIVE CountData(_)
CountData(q) == IF q = <<>> THEN 0
                ELSE (IF Head(q) # Null THEN 1 ELSE 0) + CountData(Tail(q))

InFlight ==
    Len(nextQueue) + CountData(results.senders)
        + (IF cpc = "got" /\ chold # Null THEN 1 ELSE 0)

Min(a, b) == IF a < b THEN a ELSE b

\* C17: in bufferedConcurrent(input, k, c) at most k results are in flight and
\* at most min(k, c) workers have a next() outstanding on the input.
C17_ConcurrentBound ==
    combinator = "bufferedConcurrent" =>
        /\ InFlight <= bufferSize
        /\ Len(nextQueue) <= Min(bufferSize, numWorkers)
        /\ Cardinality({w \in SWorkers : spc[w] = "next"}) = Len(nextQueue)

\* Both bounds met at once: two workers pulling, the buffer full.
C17_Witness ==
    /\ combinator = "bufferedConcurrent"
    /\ numWorkers >= 2 /\ bufferSize >= 3
    /\ Len(nextQueue) = Min(bufferSize, numWorkers)
    /\ InFlight = bufferSize

\* What an input item contributes to the output: fn(x), or x.
OutputOf(x) == IF combinator = "mapConcurrent" THEN MapFn(x) ELSE x

Outputs == {output[i] : i \in 1..Len(output)}

Holding(w) == spc[w] \in {"next", "map"} /\ sitem[w] # 0

\* C18: in mapConcurrent and concurrent no two workers obtain the same input
\* item, no output is yielded twice, at most one null is sent, and it is sent
\* when every worker has returned, behind every output; when fn rejects on no
\* item the drain ends with the output of every input item and one null sent.
C18_Inv ==
    combinator \in FanOut =>
        /\ \A v, w \in SWorkers : (Holding(v) /\ Holding(w) /\ v # w) => sitem[v] # sitem[w]
        /\ Outputs \subseteq {OutputOf(x) : x \in 1..inputLen}
        /\ \A i, j \in 1..Len(output) : output[i] = output[j] => i = j
        /\ endMarkers <= 1
        /\ endMarkers = 1 => \A w \in SWorkers : spc[w] = "exit"
        /\ \A i \in 1..Len(results.senders) :
              results.senders[i] = Null => i = Len(results.senders)
        /\ cpc = "done" => Outputs = {OutputOf(x) : x \in 1..inputLen}

C18_Step ==
    combinator \in FanOut =>
        /\ \A w \in SWorkers :
              (sitem'[w] # sitem[w] /\ sitem'[w] # 0) => sitem'[w] > pulled
        /\ endMarkers' > endMarkers =>
              /\ \A w \in SWorkers : spc[w] = "exit"
              /\ pulled = inputLen

C18_Live ==
    (combinator \in FanOut /\ mapFail = 0) ~>
        (cpc = "done" /\ endMarkers = 1 /\ Len(output) = inputLen)

C18_FanOutItemsOnce == []C18_Inv /\ [][C18_Step]_vars /\ C18_Live

\* Two workers or more, drained to the end, the first output not the first item's.
C18_Witness ==
    /\ combinator = "mapConcurrent"
    /\ numWorkers >= 2 /\ inputLen >= 3
    /\ cpc = "done"
    /\ endMarkers = 1
    /\ Len(output) = inputLen
    /\ output[1] # MapFn(1)

\* C19: with one worker mapConcurrent yields fn of the input items in input
\* order, and all of them when fn rejects on none.
C19_Inv ==
    (combinator = "mapConcurrent" /\ numWorkers = 1) =>
        \A i \in 1..Len(output) : output[i] = MapFn(i)

C19_Live ==
    (combinator = "mapConcurrent" /\ numWorkers = 1 /\ mapFail = 0) ~>
        (cpc = "done" /\ Len(output) = inputLen)

C19_OneWorkerInOrder == []C19_Inv /\ C19_Live

\* [1, 2, 3] doubled by one worker: [2, 4, 6].
C19_Witness ==
    /\ combinator = "mapConcurrent"
    /\ numWorkers = 1
    /\ cpc = "done"
    /\ output = <<2, 4, 6>>

\* C20: once mapFn has rejected in a worker and every worker has left its
\* loop, the output loop is not left parked on an empty channel: the error or
\* an end marker reaches it.
C20_OutputNotLeftSuspended ==
    ~ /\ combinator = "mapConcurrent"
      /\ \E w \in SWorkers : spc[w] = "failed"
      /\ \A w \in SWorkers : spc[w] \in {"exit", "failed"}
      /\ results.senders = <<>>
      /\ cpc = "waiting"

\* C21: a Signal goes from pending to fulfilled once, at the first signal() or
\* fulfill(), and stays fulfilled; a further call changes nothing, and no
\* wait() is resumed twice.
C21_Inv ==
    /\ sigState \in {"pending", "fulfilled"}
    /\ sigState = "fulfilled" <=> sigCalls >= 1
    /\ \A w \in 1..nWaits : wakeups[w].n <= 1

C21_Step ==
    /\ sigState = "fulfilled" => sigState' = "fulfilled"
    /\ (sigCalls' # sigCalls /\ sigState = "fulfilled") =>
          UNCHANGED <<sigState, sigReactions, sigJobs, wakeups, nWaits>>

C21_FulfilledOnce == []C21_Inv /\ [][C21_Step]_vars

\* A waiter released by the first call, and a second call made after it.
C21_Witness ==
    /\ sigCalls >= 2
    /\ \E w \in 1..nWaits : wakeups[w].parked /\ wakeups[w].n = 1

\* C22: a wait() resumes only when the Signal is fulfilled; at fulfilment every
\* suspended wait() is scheduled, none stays registered; and every wait(),
\* issued before or after, resumes once the Signal is fulfilled.
C22_Inv ==
    /\ sigState = "fulfilled" => sigReactions = <<>>
    /\ sigState = "pending" => \A w \in 1..nWaits : wakeups[w].n = 0

C22_Step ==
    (\E w \in 1..nWaits : wakeups'[w].n > wakeups[w].n) => sigState = "fulfilled"

C22_Live ==
    \A w \in 1..MaxWaits :
        (nWaits >= w /\ sigState = "fulfilled") ~> (nWaits >= w /\ wakeups[w].n = 1)

C22_WaitersReleased == []C22_Inv /\ [][C22_Step]_vars /\ C22_Live

\* Two waits suspended while pending and one issued after fulfilment, all resumed.
C22_Witness ==
    /\ nWaits >= 3
    /\ \A w \in 1..nWaits : wakeups[w].n = 1
    /\ Cardinality({w \in 1..nWaits : wakeups[w].parked}) >= 2
    /\ \E w \in 1..nWaits : ~wakeups[w].parked

\* The Concessions granted and not released.
Granted == {c \in 1..nAcq : cstate[c] = "granted"}

\* C23: release() on a released Concession throws and leaves the Semaphore as
\* it was: the capacity is not incremented again and no parked acquire() is
\* woken; the counter always equals the initial capacity minus the
\* Concessions granted and not released.
C23_Inv == semCapacity = semSize - Cardinality(Granted)

C23_Step ==
    relErrors' # relErrors =>
        /\ \E c \in 1..nAcq : cstate[c] = "released"
        /\ UNCHANGED <<semCapacity, semWaiters, semWoken, cstate>>

C23_Throws ==
    (nRel' # nRel) =>
        \/ relErrors' = relErrors + 1 /\ cstate' = cstate
        \/ /\ relErrors' = relErrors
           /\ \E c \in 1..nAcq : cstate[c] = "granted" /\ cstate'[c] = "released"

C23_DoubleReleaseRejected == []C23_Inv /\ [][C23_Step /\ C23_Throws]_vars

\* A second release was rejected while an acquire() is parked, and it still is.
C23_Witness ==
    /\ relErrors >= 1
    /\ semWaiters # <<>>
    /\ semCapacity = 0

\* C29: the Concessions granted and not released never exceed the capacity the
\* Semaphore was created with, and the counter is never negative.
C29_WithinCapacity ==
    /\ Cardinality(Granted) <= semSize
    /\ semCapacity >= 0

\* C24: of the two queues of a Channel at most one is non-empty; a send either
\* resolves the oldest parked receive or is queued, a receive either takes the
\* oldest queued send or parks, and never both.
C24_Inv == senders = <<>> \/ receivers = <<>>

C24_Step ==
    /\ Len(sent') # Len(sent) =>
          IF receivers # <<>>
          THEN /\ receivers' = Tail(receivers)
               /\ Len(got') = Len(got) + 1
               /\ senders' = senders
          ELSE /\ Len(senders') = Len(senders) + 1
               /\ got' = got
               /\ receivers' = receivers
    /\ nRecv' # nRecv =>
          IF senders # <<>>
          THEN /\ senders' = Tail(senders)
               /\ Len(got') = Len(got) + 1
               /\ receivers' = receivers
          ELSE /\ Len(receivers') = Len(receivers) + 1
               /\ got' = got
               /\ senders' = senders

C24_OneQueueNonEmpty == []C24_Inv /\ [][C24_Step]_vars

\* A send was handed to a parked receive, a receive took a queued send, and a
\* send is queued now.
C24_Witness ==
    /\ senders # <<>>
    /\ \E i \in 1..Len(got) : got[i].by = "send"
    /\ \E i \in 1..Len(got) : got[i].by = "receive"

\* C25: in a run of bufferedConcurrent at most one worker sees the end of the
\* input and at most one null is sent to results.
C25_OneEndMarker ==
    combinator = "bufferedConcurrent" => endMarkers <= 1

\* C26: in bufferedConcurrent, once the output loop has seen the end marker and
\* sent its false concessions every worker exits; no worker calls next() on
\* resuming with a concession when `finished` is set.
C26_Inv ==
    (combinator = "bufferedConcurrent" /\ cpc = "done") =>
        /\ finished
        /\ \A w \in SWorkers : spc[w] \in {"token", "next", "exit"}
        /\ \A w \in SWorkers : spc[w] = "token" =>
              \/ granted[w] # <<>>
              \/ \E i \in 1..Len(concessions.receivers) : concessions.receivers[i] = w

C26_Step ==
    combinator = "bufferedConcurrent" =>
        \A w \in SWorkers :
            (finished /\ spc[w] = "token") => spc'[w] \in {"token", "exit"}

C26_Live ==
    (combinator = "bufferedConcurrent" /\ cpc = "done") ~>
        (concessions.receivers = <<>> /\ \A w \in SWorkers : spc[w] = "exit")

C26_WorkersExit == []C26_Inv /\ [][C26_Step]_vars /\ C26_Live

\* Two workers or more, all gone after the end, one of them sent away by a
\* false concession it had been parked for.
C26_Witness ==
    /\ combinator = "bufferedConcurrent"
    /\ numWorkers >= 2 /\ inputLen >= 1
    /\ cpc = "done"
    /\ \A w \in SWorkers : spc[w] = "exit"
    /\ Len(concessions.senders) < numWorkers
    /\ \A i \in 1..Len(concessions.senders) : concessions.senders[i] = FALSE

\* C27: buffered on a finite input ends: the drain reaches the end marker,
\* one null is sent in all, and the worker has left its loop when the output
\* loop sends the false concession.
C27_Inv ==
    combinator = "buffered" =>
        /\ endMarkers <= 1
        /\ cpc = "done" => endMarkers = 1 /\ spc[1] = "exit"
        /\ cpc = "done" => concessions.receivers = <<>>

C27_Step ==
    (combinator = "buffered" /\ cpc # "done" /\ cpc' = "done") =>
        /\ spc[1] = "exit"
        /\ Len(concessions'.senders) = Len(concessions.senders) + 1

C27_Live == (combinator = "buffered") ~> (cpc = "done" /\ spc[1] = "exit")

C27_BufferedEnds == []C27_Inv /\ [][C27_Step]_vars /\ C27_Live

\* The drain of a non-empty input has ended with the false concession left queued.
C27_Witness ==
    /\ combinator = "buffered"
    /\ inputLen >= 2
    /\ cpc = "done"
    /\ spc[1] = "exit"
    /\ concessions.senders # <<>>
    /\ concessions.senders[Len(concessions.senders)] = FALSE

\* C28: on a BoundedChannel the values are received in the order in which
\* their send() calls were issued, blocked senders included: of two receives
\* the earlier one never obtains the value of the later send.
C28_SendOrder ==
    \A i, j \in 1..Len(got) :
        got[i].rcv < got[j].rcv => got[i].sid < got[j].sid

InSeq(q, x) == \E i \in 1..Len(q) : q[i] = x

\* The value of send s has been handed to a receive or is queued.
Passed(s) ==
    \/ \E i \in 1..Len(got) : got[i].sid = s
    \/ \E i \in 1..Len(senders) : senders[i].sid = s

\* C30: every receive() fulfils the Signal of the oldest blocked sender, so the
\* j-th oldest is released by the j-th receive(); a sender that blocked is
\* blocked, released or past the wait, never forgotten; and a released sender
\* resumes, has its value handed over or queued, and its send() returns.
C30_Inv ==
    \A s \in 1..Len(sent) :
        InSeq(blockedOrder, s) => (InSeq(signals, s) \/ InSeq(woken, s) \/ Passed(s))

C30_Step ==
    (nRecv' # nRecv /\ signals # <<>>) =>
        /\ signals' = Tail(signals)
        /\ woken' = Append(woken, Head(signals))

C30_Live ==
    \A s \in 1..MaxSends :
        InSeq(woken, s) ~> (Passed(s) /\ ~InSeq(woken, s) /\ ~InSeq(yielding, s))

C30_NoLostWakeup == []C30_Inv /\ [][C30_Step]_vars /\ C30_Live

\* Two senders blocked; the second oldest was released by the second receive(),
\* its value has been received and its send() has returned.
C30_Witness ==
    /\ Len(blockedOrder) >= 2
    /\ \E i \in 1..Len(got) : got[i].sid = blockedOrder[2]
    /\ ~InSeq(yielding, blockedOrder[2])

====
